---- MODULE Spec2Model ----
(***************************************************************************)
(* A model of AttackHunter (src/main.py): the sqlite-backed query cache    *)
(* with its 24 hour freshness rule, the extraction of techniques from the  *)
(* ATT&CK document, the severity heuristic and search_techniques.          *)
(*                                                                         *)
(* Python strings that are formatted, lower-cased or searched are modelled *)
(* as sequences of one-character strings.  A value that may be None is a   *)
(* record [some, val]; dict.get(k) of a missing key is None.               *)
(***************************************************************************)
EXTENDS Integers, Sequences, FiniteSets, TLC

VARIABLES
    db,        \* the sqlite file: [exists, rows], rows of attack_cache
    now,       \* the wall clock, in ticks of 1/TicksPerSecond second
    remote,    \* the document the dataset URL currently serves
    steps,     \* number of operations performed so far (bounds the run)
    ticks,     \* number of clock advances so far (bounds the run)
    last,      \* what the most recent operation observed / returned
    ghost,     \* history the properties refer to (never read by the code)
    pc,        \* per-process position (concurrent specification)
    loc        \* per-process local variables (concurrent specification)

vars == <<db, now, remote, steps, ticks, last, ghost, pc, loc>>

-----------------------------------------------------------------------------
(* Bounds of the model *)

TicksPerSecond == 2
MaxTicks == 1
MaxCalls == 2
MaxCacheOps == 3
MaxSearches == 2
MaxListLen == 2
MaxPlatforms == 5
MaxPhases == 2
MaxDocLen == 2

-----------------------------------------------------------------------------
(* Python values *)

None == [some |-> FALSE, val |-> <<>>]
Some(v) == [some |-> TRUE, val |-> v]
NoneB == [some |-> FALSE, val |-> FALSE]

\* bool(x) of an optional string or list: None and the empty value are falsy
Truthy(o) == o.some /\ o.val # <<>>

\* dict.get(key, default) once the key's optional value is known
GetOr(o, default) == IF o.some THEN o.val ELSE default

Min(a, b) == IF a < b THEN a ELSE b
Max(a, b) == IF a > b THEN a ELSE b

\* str.lower() on the characters the model uses
LowerChar(c) ==
    CASE c = "A" -> "a"
      [] c = "E" -> "e"
      [] c = "N" -> "n"
      [] c = "O" -> "o"
      [] c = "T" -> "t"
      [] OTHER -> c

Lower(s) == [i \in 1..Len(s) |-> LowerChar(s[i])]

\* Python's "a in b" on strings: a is a contiguous substring of b
Contains(b, a) ==
    \E i \in 0..(Len(b) - Len(a)) : SubSeq(b, i + 1, i + Len(a)) = a

Digit(d) ==
    CASE d = 0 -> "0" [] d = 1 -> "1" [] d = 2 -> "2" [] d = 3 -> "3"
      [] d = 4 -> "4" [] d = 5 -> "5" [] d = 6 -> "6" [] d = 7 -> "7"
      [] d = 8 -> "8" [] d = 9 -> "9"

RECURSIVE NatStr(_)
NatStr(n) == IF n < 10 THEN <<Digit(n)>> ELSE NatStr(n \div 10) \o <<Digit(n % 10)>>

\* str(int)
IntStr(n) == IF n < 0 THEN <<"-">> \o NatStr(-n) ELSE NatStr(n)

\* f"{x}" of an optional string: None is formatted as the text None
Fmt(o) == IF o.some THEN o.val ELSE <<"N", "o", "n", "e">>

\* seq[:n]
Slice(s, n) ==
    IF n >= 0 THEN SubSeq(s, 1, Min(n, Len(s)))
    ELSE SubSeq(s, 1, Max(Len(s) + n, 0))

-----------------------------------------------------------------------------
(* get_severity_level *)

CRITICO == <<"C", "R", "I", "T", "I", "C", "O">>
ALTO == <<"A", "L", "T", "O">>
MEDIO == <<"M", "E", "D", "I", "O">>
BAIXO == <<"B", "A", "I", "X", "O">>

\* faulty variant: severity_score with the platform threshold off by one
severity_score_ge3(technique) ==
      (IF GetOr(technique.x_mitre_deprecated, FALSE) THEN 1 ELSE 0)
    + (IF Len(GetOr(technique.x_mitre_platforms, <<>>)) >= 3 THEN 2 ELSE 0)
    + (IF GetOr(technique.x_mitre_defense_bypassed, <<>>) # <<>> THEN 2 ELSE 0)
    + (IF GetOr(technique.x_mitre_permissions_required, <<>>) = <<>> THEN 1 ELSE 0)

severity_score(technique) ==
      (IF GetOr(technique.x_mitre_deprecated, FALSE) THEN 1 ELSE 0)
    + (IF Len(GetOr(technique.x_mitre_platforms, <<>>)) > 3 THEN 2 ELSE 0)
    + (IF GetOr(technique.x_mitre_defense_bypassed, <<>>) # <<>> THEN 2 ELSE 0)
    + (IF GetOr(technique.x_mitre_permissions_required, <<>>) = <<>> THEN 1 ELSE 0)

get_severity_level(technique) ==
    LET score == severity_score(technique) IN
    IF score >= 4 THEN CRITICO
    ELSE IF score >= 3 THEN ALTO
    ELSE IF score >= 2 THEN MEDIO
    ELSE BAIXO

-----------------------------------------------------------------------------
(* Values shared by the specifications *)

NoDb == [exists |-> FALSE, rows |-> {}]
EmptyDb == [exists |-> TRUE, rows |-> {}]
Idle == [op |-> "none"]

\* all sequences over S of length at most n
SeqsUpTo(S, n) == UNION { [1..k -> S] : k \in 0..n }

\* a list of n entries (only emptiness and length of these lists are read)
ListOf(n) == [i \in 1..n |-> i]

OptLists(n) == {None} \cup { Some(ListOf(k)) : k \in 0..n }

-----------------------------------------------------------------------------
(* The cache: initialize_cache, get_from_cache, save_to_cache *)

TTLHours == 24
TTL == TTLHours * 3600 * TicksPerSecond

\* datetime.now().strftime("%Y-%m-%d %H:%M:%S"): the text names a whole second,
\* the fraction of the second is dropped
strftime(t) == t \div TicksPerSecond

\* datetime.strptime(text, "%Y-%m-%d %H:%M:%S"): the start of that second
strptime(text) == text * TicksPerSecond

\* json.dumps / json.loads of a list of objects that came from JSON
json_dumps(data) == [json |-> data]
json_loads(text) == text.json

\* CREATE TABLE IF NOT EXISTS attack_cache (query TEXT PRIMARY KEY, data, timestamp)
initialize_cache(d) == IF d.exists THEN d ELSE EmptyDb

\* faulty variant: get_from_cache with an inclusive freshness test
get_from_cache_inclusive(d, query_key, t) ==
    LET result == { r \in d.rows : r.query = query_key } IN
    IF result = {} THEN None
    ELSE LET row == CHOOSE r \in result : TRUE IN
         IF t - strptime(row.timestamp) <= TTL THEN Some(json_loads(row.data)) ELSE None

\* SELECT data, timestamp ... WHERE query = ?; fetchone(); the 24 hour test
get_from_cache(d, query_key, t) ==
    LET result == { r \in d.rows : r.query = query_key } IN
    IF result = {} THEN None
    ELSE LET row == CHOOSE r \in result : TRUE IN
         IF t - strptime(row.timestamp) < TTL THEN Some(json_loads(row.data)) ELSE None

Row(query_key, data, t) ==
    [query |-> query_key, data |-> json_dumps(data), timestamp |-> strftime(t)]

\* faulty variant: save_to_cache as a plain INSERT that keeps the old row
save_to_cache_insert(d, query_key, data, t) ==
    [d EXCEPT !.rows = @ \cup {Row(query_key, data, t)}]

\* INSERT OR REPLACE INTO attack_cache VALUES (?, ?, ?): one statement, which
\* removes the row of the same primary key and inserts the new one
save_to_cache(d, query_key, data, t) ==
    [d EXCEPT !.rows = { r \in @ : r.query # query_key } \cup {Row(query_key, data, t)}]

\* the clock moves forward by one tick less than 24 hours, or by 24 hours
ClockSteps == {TTL - 1, TTL}

Tick ==
    /\ ticks < MaxTicks
    /\ \E d \in ClockSteps : now' = now + d
    /\ ticks' = ticks + 1
    /\ last' = Idle
    /\ UNCHANGED <<db, remote, steps, ghost, pc, loc>>

-----------------------------------------------------------------------------
(* Objects of the ATT&CK document *)

Obj(type, name, description, refs, phases, deprecated, platforms, defenses, permissions) ==
    [ type |-> type,
      name |-> name,
      description |-> description,
      external_references |-> refs,
      kill_chain_phases |-> phases,
      x_mitre_deprecated |-> deprecated,
      x_mitre_platforms |-> platforms,
      x_mitre_defense_bypassed |-> defenses,
      x_mitre_permissions_required |-> permissions ]

TacticObj(name, refs) ==
    Obj("x-mitre-tactic", name, None, refs, <<>>, NoneB, None, None, None)

TechniqueObj(name, description, phases, deprecated, platforms, defenses, permissions) ==
    Obj("attack-pattern", name, description, <<>>, phases, deprecated, platforms,
        defenses, permissions)

Ref(id) == [external_id |-> id]
Phase(name) == [phase_name |-> name]

-----------------------------------------------------------------------------
(* get_techniques *)

\* lines 95-102: the name of the first tactic object one of whose references
\* carries tactic_id; the scan stops only once the captured name is truthy
RECURSIVE find_tactic_name(_, _, _, _)
find_tactic_name(objects, tactic_id, i, tactic_name) ==
    IF i > Len(objects) THEN tactic_name
    ELSE LET obj == objects[i]
             hit == /\ obj.type = "x-mitre-tactic"
                    /\ obj.external_references # <<>>
                    /\ \E j \in 1..Len(obj.external_references) :
                          obj.external_references[j].external_id = tactic_id
             name == IF hit THEN obj.name ELSE tactic_name
         IN  IF Truthy(name) THEN name
             ELSE find_tactic_name(objects, tactic_id, i + 1, name)

\* lines 109-113: some phase's phase_name == tactic_name (None == None is True)
phase_matches(obj, tactic_name) ==
    /\ obj.kill_chain_phases # <<>>
    /\ \E j \in 1..Len(obj.kill_chain_phases) :
          obj.kill_chain_phases[j].phase_name = tactic_name

\* attack_data: None, or a document [objects |-> Some(list)]; {} has no objects
DocTruthy(attack_data) == attack_data.some /\ attack_data.val.objects.some

get_techniques(attack_data, tactic_id) ==
    IF ~DocTruthy(attack_data) THEN <<>>
    ELSE LET objects == attack_data.val.objects.val
             tactic_name == IF Truthy(tactic_id)
                            THEN find_tactic_name(objects, tactic_id, 1, None)
                            ELSE None
             keep(obj) == /\ obj.type = "attack-pattern"
                          /\ (Truthy(tactic_id) => phase_matches(obj, tactic_name))
         IN  SelectSeq(objects, keep)

Document(objects) == Some([objects |-> Some(objects)])
EmptyDocument == Some([objects |-> None])

-----------------------------------------------------------------------------
(* Specification SpecClassify: get_severity_level applied to every          *)
(* combination of the four attributes it reads.                             *)

ClassifyInputs ==
    { TechniqueObj(None, None, <<>>, d, p, df, pm) :
        d \in {NoneB, Some(TRUE), Some(FALSE)},
        p \in OptLists(MaxPlatforms),
        df \in OptLists(MaxListLen),
        pm \in OptLists(MaxListLen) }

InitClassify ==
    /\ db = EmptyDb
    /\ now = 0
    /\ remote = None
    /\ steps = 0
    /\ ticks = 0
    /\ last = Idle
    /\ ghost = <<>>
    /\ pc = <<>>
    /\ loc \in { [technique |-> t] : t \in ClassifyInputs }

Classify ==
    /\ steps < MaxCalls
    /\ steps' = steps + 1
    /\ last' = [ op |-> "classify",
                 tier |-> get_severity_level(loc.technique),
                 prev |-> IF last.op = "classify" THEN Some(last.tier) ELSE None ]
    /\ UNCHANGED <<db, now, remote, ticks, ghost, pc, loc>>

NextClassify == Classify

SpecClassify == InitClassify /\ [][NextClassify]_vars

-----------------------------------------------------------------------------
(* Specification SpecExtract: get_techniques applied to small documents.    *)

EX == <<"e", "x">>
TA1 == <<"T", "A", "1">>
TA9 == <<"T", "A", "9">>

PhaseLists == SeqsUpTo({Phase(Some(EX)), Phase(None)}, MaxPhases)

ExtractObjects ==
    {TacticObj(Some(EX), <<Ref(None), Ref(Some(TA1))>>)}
    \cup { TechniqueObj(None, None, ph, NoneB, None, None, None) : ph \in PhaseLists }

ExtractDocuments ==
    {None, EmptyDocument} \cup { Document(os) : os \in SeqsUpTo(ExtractObjects, MaxDocLen) }

ExtractTactics == {None, Some(<<>>), Some(TA1), Some(TA9)}

InitExtract ==
    /\ db = EmptyDb
    /\ now = 0
    /\ remote = None
    /\ steps = 0
    /\ ticks = 0
    /\ last = Idle
    /\ ghost = <<>>
    /\ pc = <<>>
    /\ loc \in { [attack_data |-> d, tactic_id |-> t] :
                    d \in ExtractDocuments, t \in ExtractTactics }

Extract ==
    /\ steps < 1
    /\ steps' = steps + 1
    /\ last' = [ op |-> "extract",
                 techniques |-> get_techniques(loc.attack_data, loc.tactic_id) ]
    /\ UNCHANGED <<db, now, remote, ticks, ghost, pc, loc>>

NextExtract == Extract

SpecExtract == InitExtract /\ [][NextExtract]_vars

-----------------------------------------------------------------------------
(* search_techniques and what it calls *)

\* line 169: f"{keyword}_{tactic}_{max_results}_{min_severity}"
cache_key_of(keyword, tactic, max_results, min_severity) ==
    Fmt(keyword) \o <<"_">> \o Fmt(tactic) \o <<"_">> \o IntStr(max_results)
        \o <<"_">> \o Fmt(min_severity)

\* line 172: "if not techniques" is true of None and of the empty list
cache_miss(techniques) == ~Truthy(techniques)

\* an HTTP exchange: a response with a status code and a JSON body, or an exception
Responses ==
    { [kind |-> "response", status_code |-> 200],
      [kind |-> "response", status_code |-> 404],
      [kind |-> "exception", status_code |-> 0] }

FetchFailed(resp) == resp.kind = "exception" \/ resp.status_code # 200

fetch_attack_data(resp, body) ==
    IF resp.kind = "exception" THEN None
    ELSE IF resp.status_code = 200 THEN body
    ELSE None

\* faulty variant: a search that goes on after a failed fetch
fetch_aborts_never(attack_data) == FALSE

\* lines 174-175: "if not attack_data: return"
fetch_aborts(attack_data) == ~DocTruthy(attack_data)

\* lines 179-184: case-insensitive substring match on name or description
keyword_filter(techniques, keyword) ==
    IF ~Truthy(keyword) THEN techniques
    ELSE LET k == Lower(keyword.val)
             match(tech) == \/ Contains(Lower(GetOr(tech.name, <<>>)), k)
                            \/ Contains(Lower(GetOr(tech.description, <<>>)), k)
         IN  SelectSeq(techniques, match)

TierRank(tier) ==
    CASE tier = BAIXO -> 0 [] tier = MEDIO -> 1 [] tier = ALTO -> 2 [] tier = CRITICO -> 3

\* faulty variant: a severity filter that keeps every record at or above the tier
severity_filter_threshold(techniques, min_severity) ==
    IF ~Truthy(min_severity) THEN techniques
    ELSE LET keep(tech) == TierRank(get_severity_level(tech)) >= TierRank(min_severity.val)
         IN  SelectSeq(techniques, keep)

\* lines 188-192
severity_filter(techniques, min_severity) ==
    IF ~Truthy(min_severity) THEN techniques
    ELSE LET keep(tech) == get_severity_level(tech) = min_severity.val
         IN  SelectSeq(techniques, keep)

\* faulty variant: truncation before the severity filter
filter_and_truncate_swapped(techniques, min_severity, max_results) ==
    severity_filter(Slice(techniques, max_results), min_severity)

\* lines 188-194: the severity filter, then techniques[:max_results]
filter_and_truncate(techniques, min_severity, max_results) ==
    Slice(severity_filter(techniques, min_severity), max_results)

\* the effects of one call of search_techniques on the store d at time t, with
\* resp/body the outcome of the HTTP request should it be issued
search_techniques(d, t, resp, body, keyword, tactic, max_results, min_severity) ==
    LET cache_key == cache_key_of(keyword, tactic, max_results, min_severity)
        cached == get_from_cache(d, cache_key, t)
        miss == cache_miss(cached)
        attack_data == fetch_attack_data(resp, body)
        extracted == keyword_filter(get_techniques(attack_data, tactic), keyword)
        techniques == IF miss THEN extracted ELSE cached.val
    IN  IF miss /\ fetch_aborts(attack_data)
        THEN [ db |-> d, cache_key |-> cache_key, cached |-> cached, fetches |-> 1,
               saved |-> FALSE, candidates |-> <<>>, output |-> None ]
        ELSE [ db |-> IF miss THEN save_to_cache(d, cache_key, extracted, t) ELSE d,
               cache_key |-> cache_key, cached |-> cached,
               fetches |-> IF miss THEN 1 ELSE 0,
               saved |-> miss,
               candidates |-> techniques,
               output |-> Some(filter_and_truncate(techniques, min_severity, max_results)) ]

-----------------------------------------------------------------------------
(* Specification Spec: one process issuing searches one after another,      *)
(* while time passes and the published dataset changes.                     *)

LNONE == <<"N", "o", "n", "e">>

\* CRITICO (score 5), name contains the keyword in another case
TechNone ==
    TechniqueObj(Some(<<"N", "O", "n", "e">>), None, <<Phase(Some(EX))>>,
                 Some(FALSE), Some(ListOf(4)), Some(ListOf(1)), Some(<<>>))
\* ALTO (score 3), description contains the keyword, its phase has no name
TechDesc ==
    TechniqueObj(Some(<<"a", "b">>), Some(<<"x", "n", "o", "n", "e">>), <<Phase(None)>>,
                 NoneB, Some(ListOf(1)), Some(ListOf(2)), None)
\* CRITICO (score 4), shares only a prefix with the keyword
TechNon ==
    TechniqueObj(Some(<<"n", "o", "n">>), Some(<<"o", "n", "e">>), <<Phase(Some(EX))>>,
                 Some(TRUE), Some(ListOf(4)), None, Some(<<>>))
\* BAIXO (score 0), neither name nor description
TechBare ==
    TechniqueObj(None, None, <<>>, NoneB, Some(ListOf(3)), None, Some(ListOf(1)))

TacticEX == TacticObj(Some(EX), <<Ref(Some(TA1))>>)

DatasetA == Document(<<TacticEX, TechDesc, TechNone, TechBare, TechNon>>)
DatasetB == Document(<<TechNon, TacticEX>>)
Datasets == {DatasetA, DatasetB}

Keywords == {None, Some(LNONE), Some(<<"z">>)}
Tactics == {None}
MaxResultsValues == {1, 2}
Severities == {None, Some(ALTO), Some(CRITICO)}

Init ==
    /\ db = EmptyDb
    /\ now = 0
    /\ remote = DatasetA
    /\ steps = 0
    /\ ticks = 0
    /\ last = Idle
    /\ ghost = {}
    /\ pc = <<>>
    /\ loc = <<>>

\* the write the store holds for a key, as the history knows it
WriterOf(key) ==
    IF \E w \in ghost : w.cache_key = key
    THEN Some(CHOOSE w \in ghost : w.cache_key = key)
    ELSE None

Search ==
    /\ steps < MaxSearches
    /\ \E keyword \in Keywords, tactic \in Tactics, max_results \in MaxResultsValues,
          min_severity \in Severities, resp \in Responses :
          \E r \in { search_techniques(db, now, resp, remote, keyword, tactic,
                                       max_results, min_severity) } :
              /\ db' = r.db
              /\ last' = [ op |-> "search", keyword |-> keyword, tactic |-> tactic,
                           max_results |-> max_results, min_severity |-> min_severity,
                           failed |-> FetchFailed(resp), at |-> now,
                           store_changed |-> (r.db # db),
                           prior |-> WriterOf(r.cache_key),
                           cached |-> r.cached, fetches |-> r.fetches,
                           saved |-> r.saved, candidates |-> r.candidates,
                           output |-> r.output ]
              /\ ghost' = IF r.saved
                          THEN { x \in ghost : x.cache_key # r.cache_key }
                               \cup { [ cache_key |-> r.cache_key, keyword |-> keyword,
                                        tactic |-> tactic, max_results |-> max_results,
                                        min_severity |-> min_severity, at |-> now ] }
                          ELSE ghost
    /\ steps' = steps + 1
    /\ UNCHANGED <<now, remote, ticks, pc, loc>>

Next == Search \/ Tick

Spec == Init /\ [][Next]_vars

-----------------------------------------------------------------------------
(* Specification SpecCache: put and get on the store, and the clock.        *)

CacheKeys ==
    { cache_key_of(None, None, 1, None), cache_key_of(Some(<<"z">>), None, 1, None) }

Payloads == { <<>>, <<TechNone>>, <<TechDesc, TechBare>> }

InitCache ==
    /\ db = EmptyDb
    /\ now \in 0..(TicksPerSecond - 1)
    /\ remote = None
    /\ steps = 0
    /\ ticks = 0
    /\ last = Idle
    /\ ghost = [k \in CacheKeys |-> [some |-> FALSE]]
    /\ pc = <<>>
    /\ loc = <<>>

Put ==
    /\ steps < MaxCacheOps
    /\ \E k \in CacheKeys, v \in Payloads :
          /\ db' = save_to_cache(db, k, v, now)
          /\ ghost' = [ghost EXCEPT ![k] =
                          [ some |-> TRUE, payload |-> v, at |-> now,
                            puts |-> IF @.some THEN @.puts + 1 ELSE 1 ]]
          /\ last' = [op |-> "put", key |-> k]
    /\ steps' = steps + 1
    /\ UNCHANGED <<now, remote, ticks, pc, loc>>

Get ==
    /\ steps < MaxCacheOps
    /\ \E k \in CacheKeys :
          last' = [op |-> "get", key |-> k, at |-> now,
                   result |-> get_from_cache(db, k, now)]
    /\ steps' = steps + 1
    /\ UNCHANGED <<db, now, remote, ticks, ghost, pc, loc>>

NextCache == Put \/ Get \/ Tick

SpecCache == InitCache /\ [][NextCache]_vars

-----------------------------------------------------------------------------
(* Specification SpecConc: two processes, each a run of the program         *)
(* (construction, then one search), interleaved step by step on one store.  *)

Procs == {"p1", "p2"}

ConcKeywords == {None}
ConcTactics == {None, Some(TA1), Some(TA9)}

InitConc ==
    /\ db = NoDb
    /\ now = 0
    /\ remote = DatasetA
    /\ steps = 0
    /\ ticks = 0
    /\ last = Idle
    /\ ghost = {}
    /\ pc = [p \in Procs |-> "start"]
    /\ loc = [p \in Procs |-> Idle]

\* __init__: initialize_cache
Construct(p) ==
    /\ pc[p] = "start"
    /\ db' = initialize_cache(db)
    /\ pc' = [pc EXCEPT ![p] = "ready"]
    /\ last' = [op |-> "construct", rows_before |-> db.rows]
    /\ UNCHANGED <<now, remote, steps, ticks, ghost, loc>>

\* search_techniques, lines 169-172: the key and the cache lookup; on a hit
\* the rest of the call (lines 188-204) touches nothing shared
Lookup(p) ==
    /\ pc[p] = "ready"
    /\ \E keyword \in ConcKeywords, tactic \in ConcTactics :
          LET cache_key == cache_key_of(keyword, tactic, 2, None)
              techniques == get_from_cache(db, cache_key, now)
          IN  /\ loc' = [loc EXCEPT ![p] =
                            [ op |-> "search", keyword |-> keyword, tactic |-> tactic,
                              cache_key |-> cache_key, techniques |-> techniques ]]
              /\ pc' = [pc EXCEPT ![p] = IF cache_miss(techniques) THEN "fetch" ELSE "done"]
    /\ last' = [op |-> "get", rows_before |-> db.rows]
    /\ UNCHANGED <<db, now, remote, steps, ticks, ghost>>

\* lines 173-184: the download, the extraction and the keyword filter
Fetch(p) ==
    /\ pc[p] = "fetch"
    /\ \E resp \in Responses :
          LET attack_data == fetch_attack_data(resp, remote) IN
          IF fetch_aborts(attack_data)
          THEN /\ pc' = [pc EXCEPT ![p] = "done"]
               /\ loc' = loc
          ELSE /\ pc' = [pc EXCEPT ![p] = "save"]
               /\ loc' = [loc EXCEPT ![p].techniques =
                             Some(keyword_filter(get_techniques(attack_data, loc[p].tactic),
                                                 loc[p].keyword))]
    /\ last' = [op |-> "fetch", rows_before |-> db.rows]
    /\ UNCHANGED <<db, now, remote, steps, ticks, ghost>>

\* line 186: save_to_cache; lines 188-204 touch nothing shared
Save(p) ==
    /\ pc[p] = "save"
    /\ db' = save_to_cache(db, loc[p].cache_key, loc[p].techniques.val, now)
    /\ ghost' = ghost \cup {Row(loc[p].cache_key, loc[p].techniques.val, now)}
    /\ pc' = [pc EXCEPT ![p] = "done"]
    /\ last' = [ op |-> "put", key |-> loc[p].cache_key,
                 row |-> Row(loc[p].cache_key, loc[p].techniques.val, now),
                 rows_before |-> db.rows ]
    /\ UNCHANGED <<now, remote, steps, ticks, loc>>

\* a new version of the dataset is published
Publish ==
    /\ \E d \in Datasets \ {remote} : remote' = d
    /\ last' = Idle
    /\ UNCHANGED <<db, now, steps, ticks, ghost, pc, loc>>

NextConc ==
    \/ \E p \in Procs : Construct(p) \/ Lookup(p) \/ Fetch(p) \/ Save(p)
    \/ Tick
    \/ Publish

SpecConc == InitConc /\ [][NextConc]_vars

-----------------------------------------------------------------------------
(* Claims about the store (SpecCache) *)

\* the instant the timestamp column of a write made at tick t names: the
\* start of the second in which the write happened
StoredInstant(t) == strptime(strftime(t))

\* C1: get(k) returns the payload of the most recent put(k, v), unchanged,
\* exactly when such a put exists and strictly less than 24 hours have elapsed
\* since the timestamp that put wrote; in every other case it returns absent.
C1_GetReturnsLatestPut ==
    last.op = "get" =>
        LET w == ghost[last.key] IN
        IF w.some /\ last.at - StoredInstant(w.at) < TTL
        THEN last.result = Some(w.payload)
        ELSE ~last.result.some

\* C1 witness: a key written twice, read one tick short of 24 hours after the
\* second write, returns the second payload
C1_Witness ==
    /\ last.op = "get"
    /\ ghost[last.key].some
    /\ ghost[last.key].puts = 2
    /\ last.at - StoredInstant(ghost[last.key].at) = TTL - 1
    /\ last.result = Some(<<TechDesc, TechBare>>)

-----------------------------------------------------------------------------
(* Claims about search_techniques (Spec) *)

SameQuery(w, l) ==
    /\ w.keyword = l.keyword
    /\ w.tactic = l.tactic
    /\ w.max_results = l.max_results
    /\ w.min_severity = l.min_severity

\* C2: after a search that missed, fetched and wrote its record set, a later
\* search with the same four parameters less than 24 hours after that write
\* is a cache hit: no dataset fetch and no cache write, whatever the cached
\* record set is.
C2_RepeatedSearchHits ==
    ( /\ last.op = "search"
      /\ last.prior.some
      /\ SameQuery(last.prior.val, last)
      /\ last.at - StoredInstant(last.prior.val.at) < TTL )
    => (last.fetches = 0 /\ ~last.saved)

\* C3: a cache entry is never reused across different queries: a search never
\* reads the entry written by a search whose parameter tuple differs from its
\* own in any component.
C3_NoCrossQueryReuse ==
    ( /\ last.op = "search"
      /\ last.cached.some
      /\ last.prior.some )
    => SameQuery(last.prior.val, last)

\* C4: when a search misses the cache and the fetch fails (non-200 status or
\* exception), the store is left exactly as it was, nothing is displayed or
\* exported, and the fetch was issued once (no retry).
C4_FetchFailureAborts ==
    ( /\ last.op = "search"
      /\ cache_miss(last.cached)
      /\ last.failed )
    => /\ ~last.store_changed
       /\ ~last.saved
       /\ ~last.output.some
       /\ last.fetches = 1

\* C4 witness: a failed fetch by a search whose own entry has expired, which
\* stays in the store with its old timestamp
C4_Witness ==
    /\ last.op = "search"
    /\ last.failed
    /\ last.prior.some
    /\ ~last.cached.some
    /\ ~last.output.some
    /\ \E r \in db.rows : /\ r.query = last.prior.val.cache_key
                          /\ r.timestamp = strftime(last.prior.val.at)
                          /\ last.at - strptime(r.timestamp) >= TTL

\* the records of exactly the given tier, in order
OfTier(techniques, tier) ==
    LET same(tech) == get_severity_level(tech) = tier IN SelectSeq(techniques, same)

C6_TruncateAfterFilter ==
    ( /\ last.op = "search"
      /\ last.output.some
      /\ last.max_results >= 0 )
    => LET out == last.output.val
           passing == IF last.min_severity.some
                      THEN OfTier(last.candidates, last.min_severity.val)
                      ELSE last.candidates
       IN  /\ Len(out) = Min(last.max_results, Len(passing))
           /\ \A i \in 1..Len(out) : out[i] = passing[i]

\* C6 witness: max_results = 1 with CRITICO requested, the first candidate is
\* not CRITICO, two later ones are, and the first of those is the result
C6_Witness ==
    /\ last.op = "search"
    /\ last.max_results = 1
    /\ last.min_severity = Some(CRITICO)
    /\ Len(last.candidates) = 4
    /\ get_severity_level(last.candidates[1]) # CRITICO
    /\ last.output = Some(<<TechNone>>)

\* what a search with the parameters of l returns from a fresh fetch of dataset
FreshResult(dataset, l) ==
    filter_and_truncate(keyword_filter(get_techniques(dataset, l.tactic), l.keyword),
                        l.min_severity, l.max_results)

\* C9: severity filter and truncation are never cached: the payload written
\* on a miss is the tactic-and-keyword-filtered record set, and the records
\* returned on a later cache hit equal what a fresh fetch of the same dataset
\* would return (the published dataset does not change in Spec).
C9_HitEqualsFreshFetch ==
    ( /\ last.op = "search"
      /\ last.fetches = 0
      /\ last.prior.some )
    => last.output = Some(FreshResult(remote, last))

-----------------------------------------------------------------------------
(* Claims about the store under two processes (SpecConc) *)

RowsOf(rows, key) == { r \in rows : r.query = key }
RowsNotOf(rows, key) == { r \in rows : r.query # key }

\* C10: in every reachable state, under any interleaving of two processes,
\* the store holds at most one entry per key and every entry is a row exactly
\* as one put wrote it (payload and timestamp of the same write); a put
\* replaces the row of its key and leaves the other keys' rows unchanged;
\* get, the fetch step and initialization change no entry.
C10_StoreIntegrity ==
    /\ \A r1, r2 \in db.rows : r1.query = r2.query => r1 = r2
    /\ db.rows \subseteq ghost
    /\ last.op \in {"construct", "get", "fetch"} => db.rows = last.rows_before
    /\ last.op = "put" =>
          /\ RowsOf(db.rows, last.key) = {last.row}
          /\ RowsNotOf(db.rows, last.key) = RowsNotOf(last.rows_before, last.key)

\* C10 witness: both processes missed on the same key, and the put of the
\* second replaced the row the first had written, with another payload and
\* another timestamp
C10_Witness ==
    /\ last.op = "put"
    /\ \A p \in Procs : pc[p] = "done" /\ loc[p].cache_key = last.key
    /\ \E r \in RowsOf(last.rows_before, last.key) :
          r.data # last.row.data /\ r.timestamp # last.row.timestamp
    /\ db.rows = {last.row}

-----------------------------------------------------------------------------
(* Claims about the pure functions *)

\* The score as the specification words it, from the four attributes
ClaimedScore(t) ==
    LET deprecated == t.x_mitre_deprecated.some /\ t.x_mitre_deprecated.val
        nplatforms == IF t.x_mitre_platforms.some THEN Len(t.x_mitre_platforms.val) ELSE 0
        ndefenses == IF t.x_mitre_defense_bypassed.some
                     THEN Len(t.x_mitre_defense_bypassed.val) ELSE 0
        npermissions == IF t.x_mitre_permissions_required.some
                        THEN Len(t.x_mitre_permissions_required.val) ELSE 0
    IN    (IF deprecated THEN 1 ELSE 0)
        + (IF nplatforms > 3 THEN 2 ELSE 0)
        + (IF ndefenses > 0 THEN 2 ELSE 0)
        + (IF npermissions = 0 THEN 1 ELSE 0)

ClaimedTier(t) ==
    CASE ClaimedScore(t) >= 4 -> CRITICO
      [] ClaimedScore(t) = 3 -> ALTO
      [] ClaimedScore(t) = 2 -> MEDIO
      [] OTHER -> BAIXO

TacticKnown(attack_data, tactic_id) ==
    /\ DocTruthy(attack_data)
    /\ \E i \in 1..Len(attack_data.val.objects.val) :
          LET obj == attack_data.val.objects.val[i] IN
          /\ obj.type = "x-mitre-tactic"
          /\ \E j \in 1..Len(obj.external_references) :
                obj.external_references[j].external_id = tactic_id

\* C8: extract with a tactic code that matches no tactic object's external
\* references yields an empty technique sequence, whatever phase lists the
\* technique objects carry (phases without a phase name included).
C8_UnknownTacticEmpty ==
    ( /\ last.op = "extract"
      /\ Truthy(loc.tactic_id)
      /\ ~TacticKnown(loc.attack_data, loc.tactic_id) )
    => last.techniques = <<>>

====
